---- MODULE Spec2Model ----
(***************************************************************************)
(* cat-proxy: an HTTP proxy that validates chat-completion requests,       *)
(* authenticates the caller against an identity endpoint, and relays the   *)
(* provider's token stream to the caller.                                  *)
(*                                                                         *)
(* Two variants of the server are modelled:                                *)
(*   "auth"  - src/unnamed/part_000 (health endpoint + bearer-token gate)  *)
(*   "plain" - src/index.ts         (no health endpoint, no gate)          *)
(*                                                                         *)
(* Each request handler is an async function: the code between two awaits  *)
(* runs without interleaving, so every action below is one such segment.   *)
(***************************************************************************)
EXTENDS Naturals, Sequences, FiniteSets, TLC

VARIABLES
  variant,   \* which server file is running: "auth" or "plain"
  env,       \* process.env: which of the configuration values are set
  crashed,   \* TRUE once a rejection escaped a request handler (process down)
  pc,        \* per request: the await the handler is suspended at
  req,       \* per request: what the handler has read of the request so far
  auth,      \* per request: the identity call's outcome and verifyAuthentication's result
  checks,    \* per request: checkHealth's local `checks` object
  resp,      \* per request: what was written to http.ServerResponse
  relay,     \* per request: Completion Relay state (NONE/INIT/STREAMING/DONE/ERROR)
  provided,  \* per request: chunks reader.read() has returned so far
  hist       \* per request: calls made on behalf of the request

vars == <<variant, env, crashed, pc, req, auth, checks, resp, relay, provided, hist>>

(***************************************************************************)
(* Bounds of the model.                                                    *)
(***************************************************************************)
NumReqs == 1      \* requests the server receives
MaxChunks == 2    \* chunks a provider stream yields before it must end

Reqs == 1..NumReqs

(***************************************************************************)
(* JSON values.  A value that JavaScript may leave undefined is tagged, so *)
(* that JSON.stringify can drop it as the real one does.                   *)
(***************************************************************************)
Undef == [t |-> "undefined"]
Str(s) == [t |-> "string", v |-> s]
Arr(a) == [t |-> "array", v |-> a]
Obj(o) == [t |-> "object", v |-> o]

\* JSON.stringify of an object literal: keys whose value is undefined are omitted.
JSONstringify(o) == [k \in {key \in DOMAIN o : o[key].t # "undefined"} |-> o[k]]

(***************************************************************************)
(* Thrown values.  `isError` is `x instanceof Error`.                      *)
(***************************************************************************)
Err(m) == [isError |-> TRUE, message |-> m]
NonErr == [isError |-> FALSE, message |-> ""]
NoExc == [isError |-> FALSE, message |-> "none"]

(***************************************************************************)
(* http.ServerResponse: the calls the handler makes on `res`.              *)
(***************************************************************************)
NoPayload == [kind |-> "none"]
TextPayload(s) == [kind |-> "text", text |-> s]
JsonPayload(o) == [kind |-> "json", json |-> JSONstringify(o)]

NewResponse == [heads |-> <<>>, ctype |-> "", chunks |-> <<>>, payload |-> NoPayload, ends |-> 0]

writeHead(res, status, ctype) == [res EXCEPT !.heads = Append(@, status), !.ctype = ctype]
\* write, were a chunk held back once one has been written
writeCoalesced(res, chunk) == IF res.chunks = <<>> THEN [res EXCEPT !.chunks = Append(@, chunk)] ELSE res
write(res, chunk) == [res EXCEPT !.chunks = Append(@, chunk)]
end(res, payload) == [res EXCEPT !.payload = payload, !.ends = @ + 1]

\* res.writeHead(s, {"Content-Type": "application/json"}); res.end(JSON.stringify(o))
respondJson(res, status, o) == end(writeHead(res, status, "application/json"), JsonPayload(o))
\* res.writeHead(s, {"Content-Type": "text/plain"}); res.end(text)
respondText(res, status, text) == end(writeHead(res, status, "text/plain"), TextPayload(text))

(***************************************************************************)
(* Strings the code inspects character by character are sequences of       *)
(* characters.                                                             *)
(***************************************************************************)
startsWith(s, p) == Len(s) >= Len(p) /\ SubSeq(s, 1, Len(p)) = p
BearerPrefix == <<"B", "e", "a", "r", "e", "r", " ">>

NoHeader == [defined |-> FALSE, text |-> <<>>]
Header(s) == [defined |-> TRUE, text |-> s]
AuthHeaders ==
  { NoHeader,
    Header(<<>>),
    Header(<<"B", "e", "a", "r", "e", "r">>),
    Header(BearerPrefix),
    Header(BearerPrefix \o <<"t">>),
    Header(<<"b", "e", "a", "r", "e", "r", " ", "t">>),
    Header(<<"B", "a", "s", "i", "c", " ", "t">>) }

Null == [null |-> TRUE, text |-> <<>>]
Token(s) == [null |-> FALSE, text |-> s]

\* extractBearerToken, were the scheme compared without regard to case
extractBearerTokenAnyCase(authHeader) ==
  IF ~authHeader.defined \/ authHeader.text = <<>>
     \/ ~(startsWith(authHeader.text, BearerPrefix)
          \/ startsWith(authHeader.text, <<"b", "e", "a", "r", "e", "r", " ">>))
  THEN Null
  ELSE Token(SubSeq(authHeader.text, 8, Len(authHeader.text)))

\* authHeader.substring(7)
extractBearerToken(authHeader) ==
  IF ~authHeader.defined \/ authHeader.text = <<>> \/ ~startsWith(authHeader.text, BearerPrefix)
  THEN Null
  ELSE Token(SubSeq(authHeader.text, 8, Len(authHeader.text)))

\* !token : null or the empty string
falsy(token) == token.null \/ token.text = <<>>

(***************************************************************************)
(* process.env.  PORT is always set: the module throws at load otherwise   *)
(* (part_000:12-14, index.ts:11-13).                                       *)
(***************************************************************************)
EnvNames == {"PORT", "CLERK_OAUTH_USER_INFO_URL", "AZURE_AI_RESOURCE_NAME", "AZURE_AI_API_KEY"}
Envs == {e \in [EnvNames -> BOOLEAN] : e["PORT"]}

(***************************************************************************)
(* Outcomes of an outbound fetch() and of response.json().                 *)
(***************************************************************************)
Statuses == {200, 299, 300, 401, 503}
Responded(status) == [kind |-> "response", status |-> status, exc |-> NoExc]
Threw(e) == [kind |-> "throw", status |-> 0, exc |-> e]

\* fetch(url): with no URL configured fetch('') rejects with a TypeError.
FetchOutcomes(urlSet) ==
  IF urlSet
  THEN {Responded(s) : s \in Statuses} \cup {Threw(Err("fetch failed")), Threw(NonErr)}
  ELSE {Threw(Err("Invalid URL"))}

\* response.ok
ok(status) == status >= 200 /\ status <= 299

\* response.json(): an object, null, or a rejection on an unparseable reply
JsonOutcomes == {"object", "null", "unparseable"}

(***************************************************************************)
(* verifyAuthentication                                                    *)
(***************************************************************************)
Success == [success |-> TRUE, error |-> Undef]
Failure(reason) == [success |-> FALSE, error |-> Str(reason)]
Pending == [success |-> FALSE, error |-> Undef]

\* catch (error) { return { success: false, error: error instanceof Error ? ... } }
authCatch(e) ==
  Failure(IF e.isError THEN e.message ELSE "Internal server error during authentication")

\* authNotOk, were the 401 case not told apart
authNotOkUniform(status) == Failure("Authentication service unavailable")

\* if (!response.ok) { if (response.status === 401) ... }
authNotOk(status) ==
  IF status = 401
  THEN Failure("Invalid or expired access token")
  ELSE Failure("Authentication service unavailable")

\* authBeforeFetch, were a token some request has already verified taken as verified
authBeforeFetchCached(authHeader, e) ==
  LET token == extractBearerToken(authHeader) IN
  IF falsy(token)
  THEN [next |-> "return", result |-> Failure("Missing or invalid Authorization header"), token |-> token]
  ELSE IF ~e["CLERK_OAUTH_USER_INFO_URL"]
  THEN [next |-> "return", result |-> Failure("Server configuration error"), token |-> token]
  ELSE IF \E q \in DOMAIN auth : auth[q].result.success /\ auth[q].token = token
  THEN [next |-> "return", result |-> Success, token |-> token]
  ELSE [next |-> "fetch", result |-> Pending, token |-> token]

\* the part of verifyAuthentication before its fetch: a result, or "fetch"
authBeforeFetch(authHeader, e) ==
  LET token == extractBearerToken(authHeader) IN
  IF falsy(token)
  THEN [next |-> "return", result |-> Failure("Missing or invalid Authorization header"), token |-> token]
  ELSE IF ~e["CLERK_OAUTH_USER_INFO_URL"]
  THEN [next |-> "return", result |-> Failure("Server configuration error"), token |-> token]
  ELSE [next |-> "fetch", result |-> Pending, token |-> token]

\* after response.json() resolved or rejected; userInfo.sub throws on null
authAfterJson(j) ==
  CASE j = "object" -> Success
    [] j = "null" -> authCatch(Err("Cannot read properties of null (reading 'sub')"))
    [] OTHER -> authCatch(Err("Unexpected token in JSON"))

(***************************************************************************)
(* makeAzureProviderInstance / checkHealth                                 *)
(***************************************************************************)
makeAzureProviderInstance(e) ==
  IF ~e["AZURE_AI_RESOURCE_NAME"] \/ ~e["AZURE_AI_API_KEY"]
  THEN [threw |-> TRUE, exc |-> Err("Missing Azure AI resource name or API key in environment variables")]
  ELSE [threw |-> FALSE, exc |-> NoExc]

requiredEnvVars == <<"PORT", "CLERK_OAUTH_USER_INFO_URL", "AZURE_AI_RESOURCE_NAME", "AZURE_AI_API_KEY">>

CheckOk == [status |-> Str("ok"), message |-> Undef]
CheckError(m) == [status |-> Str("error"), message |-> Str(m)]

\* the for loop with its break: the first missing variable is reported
environmentCheck(e) ==
  LET missing == {i \in 1..Len(requiredEnvVars) : ~e[requiredEnvVars[i]]} IN
  IF missing = {}
  THEN CheckOk
  ELSE LET first == CHOOSE i \in missing : \A k \in missing : i <= k
       IN CheckError("Missing required environment variable: " \o requiredEnvVars[first])

azureConnectionCheck(e) ==
  LET azure == makeAzureProviderInstance(e) IN
  IF azure.threw
  THEN CheckError(IF azure.exc.isError THEN azure.exc.message ELSE "Failed to initialize Azure AI")
  ELSE CheckOk

clerkServiceCheck(o) ==
  IF o.kind = "throw"
  THEN CheckError("Failed to connect to Clerk service")
  ELSE IF ok(o.status)
  THEN CheckOk
  ELSE CheckError("Clerk service returned status " \o ToString(o.status))

NoChecks == [c \in {} |-> CheckOk]

criticalChecks == {"environment", "azureConnection"}

\* isHealthy, were every check to count, the identity probe included
isHealthyAllChecks(cs) == \A key \in DOMAIN cs : cs[key].status = Str("ok")

\* criticalChecks.every(key => checks[key]?.status === 'ok')
isHealthy(cs) ==
  \A key \in criticalChecks : key \in DOMAIN cs /\ cs[key].status = Str("ok")

\* the value checkHealth returns
healthStatus(cs) ==
  [status |-> Str(IF isHealthy(cs) THEN "healthy" ELSE "unhealthy"),
   checks |-> Obj([k \in DOMAIN cs |-> Obj(JSONstringify(cs[k]))]),
   message |-> IF isHealthy(cs) THEN Undef ELSE Str("One or more critical checks failed")]

\* res.writeHead(healthStatus.status === 'healthy' ? 200 : 503, ...); res.end(...)
respondHealth(res, cs) ==
  LET h == healthStatus(cs) IN
  respondJson(res, IF h.status = Str("healthy") THEN 200 ELSE 503, h)

(***************************************************************************)
(* Request bodies.  parseRequestBody resolves with JSON.parse(body) or     *)
(* rejects; the parsed value is null or an object whose members may be     *)
(* absent.                                                                 *)
(***************************************************************************)
Part(type, text) == [type |-> type, text |-> text]
Msg(role, parts) == [role |-> role, parts |-> parts]
Num == [t |-> "number"]

Unparseable == [kind |-> "unparseable", messages |-> Undef, model |-> Undef]
JsonNull == [kind |-> "null", messages |-> Undef, model |-> Undef]
Body(messages, model) == [kind |-> "object", messages |-> messages, model |-> model]
Unread == [kind |-> "unread", messages |-> Undef, model |-> Undef]

Model(uri) == Obj([uri |-> uri, params |-> Obj(<<>>)])
GoodMessages == Arr(<<Msg("system", <<Part("text", "A"), Part("text", "B")>>), Msg("user", <<Part("text", "hi")>>)>>)

Bodies ==
  { Unparseable,
    JsonNull,
    Body(GoodMessages, Model(Str("gpt-4o"))),
    Body(GoodMessages, Model(Str("gpt-4.1-mini"))),
    Body(GoodMessages, Model(Str("llama"))),
    Body(Arr(<<>>), Model(Str("o3-mini"))),
    Body(Arr(<<Msg("assistant", <<Part("text", "yo")>>)>>), Model(Str("gpt-4o"))),
    Body(Arr(<<Msg("tool", <<Part("text", "x")>>)>>), Model(Str("gpt-4o"))),
    Body(Arr(<<Msg("user", <<Part("text", "x"), Part("image", "y")>>)>>), Model(Str("gpt-4o"))),
    Body(Undef, Model(Str("gpt-4o"))),
    Body(GoodMessages, Undef),
    Body(GoodMessages, Model(Undef)),
    Body(GoodMessages, Model(Num)),
    Body(GoodMessages, Obj([uri |-> Str("gpt-4o"), params |-> Undef])) }

(***************************************************************************)
(* PayloadSchema (zod).  safeParse collects one issue per offending node,  *)
(* each with the path of that node; array indexes are zero-based.          *)
(***************************************************************************)
AllowedRoles(v) == IF v = "auth" THEN {"system", "user", "assistant"} ELSE {"system", "user"}

Issue(code, path) == [code |-> code, path |-> path]
idx(i) == ToString(i - 1)

\* MessageContentSchema: type: z.literal("text")
partIssues(p, i, j) ==
  IF p.type # "text"
  THEN <<Issue("invalid_literal", <<"messages", idx(i), "parts", idx(j), "type">>)>>
  ELSE <<>>

RECURSIVE partsIssues(_, _, _)
partsIssues(parts, i, j) ==
  IF j > Len(parts) THEN <<>> ELSE partIssues(parts[j], i, j) \o partsIssues(parts, i, j + 1)

\* MessageSchema: role: z.enum([...]), parts: z.array(MessageContentSchema)
messageIssues(v, m, i) ==
  (IF m.role \notin AllowedRoles(v)
   THEN <<Issue("invalid_enum_value", <<"messages", idx(i), "role">>)>>
   ELSE <<>>) \o partsIssues(m.parts, i, 1)

RECURSIVE messagesIssues(_, _, _)
messagesIssues(v, ms, i) ==
  IF i > Len(ms) THEN <<>> ELSE messageIssues(v, ms[i], i) \o messagesIssues(v, ms, i + 1)

\* ModelSchema: uri: z.string(), params: z.record(z.any())
modelIssues(m) ==
  IF m.t # "object"
  THEN <<Issue("invalid_type", <<"model">>)>>
  ELSE (IF m.v.uri.t # "string" THEN <<Issue("invalid_type", <<"model", "uri">>)>> ELSE <<>>)
       \o (IF m.v.params.t # "object" THEN <<Issue("invalid_type", <<"model", "params">>)>> ELSE <<>>)

\* PayloadSchema.safeParse(body)
safeParse(v, body) ==
  LET errors ==
        IF body.kind # "object"
        THEN <<Issue("invalid_type", <<>>)>>
        ELSE (IF body.messages.t # "array"
              THEN <<Issue("invalid_type", <<"messages">>)>>
              ELSE messagesIssues(v, body.messages.v, 1))
             \o modelIssues(body.model)
  IN [success |-> errors = <<>>, errors |-> errors]

(***************************************************************************)
(* Deployments.                                                            *)
(***************************************************************************)
\* export type CompletionDeployment = ...
CompletionDeployment(v) ==
  IF v = "auth"
  THEN {"gpt-4.1", "gpt-4.1-mini", "gpt-4.1-nano", "gpt-4o", "gpt-4o-mini", "o3-mini"}
  ELSE {"gpt-4.1", "gpt-4o", "gpt-4o-mini", "gpt-4.1-nano"}

isDeployment(v, s) ==
  IF v = "auth"
  THEN s = "gpt-4.1" \/ s = "gpt-4.1-mini" \/ s = "gpt-4.1-nano" \/ s = "gpt-4o" \/ s = "gpt-4o-mini" \/ s = "o3-mini"
  ELSE s = "gpt-4.1" \/ s = "gpt-4o" \/ s = "gpt-4o-mini" \/ s = "o3-mini"

(***************************************************************************)
(* Message adapter: messages.map(...)                                      *)
(***************************************************************************)
\* join, were the separator left out
RECURSIVE joinNoSeparator(_, _)
joinNoSeparator(texts, sep) ==
  IF texts = <<>> THEN "" ELSE texts[1] \o joinNoSeparator(Tail(texts), sep)

RECURSIVE join(_, _)
join(texts, sep) ==
  IF texts = <<>> THEN ""
  ELSE IF Len(texts) = 1 THEN texts[1]
  ELSE texts[1] \o sep \o join(Tail(texts), sep)

\* adapt, were the default branch to keep the message's own role
adaptKeepRole(msg) ==
  IF msg.role = "system"
  THEN [role |-> "system",
        content |-> Str(join([j \in 1..Len(msg.parts) |-> msg.parts[j].text], " "))]
  ELSE [role |-> msg.role, content |-> Arr(msg.parts)]

adapt(msg) ==
  IF msg.role = "system"
  THEN [role |-> "system", content |-> Str(join([j \in 1..Len(msg.parts) |-> msg.parts[j].text], " "))]
  ELSE [role |-> "user", content |-> Arr(msg.parts)]

coreMessages(messages) == [i \in 1..Len(messages) |-> adapt(messages[i])]

(***************************************************************************)
(* The request handler.                                                    *)
(***************************************************************************)
Paths == {"/health", "/v1/chat/completions", "/other"}
Methods == {"GET", "POST", "PUT"}
Chunks == {"Hel", "lo"}

NoOutcome == [kind |-> "none", status |-> 0, exc |-> NoExc]
NewReq == [path |-> "", method |-> "", authHeader |-> NoHeader, body |-> Unread]
NewAuth == [checked |-> FALSE, token |-> Null, outcome |-> NoOutcome, json |-> "none", result |-> Pending]
NewHist == [identityCalls |-> <<>>, bodyReads |-> 0, clients |-> 0, streams |-> <<>>, outer |-> "no"]

\* new URL(req.url, `http://localhost:${...}`): index.ts names CAT_PROXY_PORT, which
\* is declared nowhere, so evaluating the template throws a ReferenceError.
urlThrows(v) == v = "plain"

\* which paths the handler dispatches on
hasHealth(v) == v = "auth"
hasAuthGate(v) == v = "auth"

\* authorized, were the gate to let every request through
authorizedAlways(result) == TRUE

\* if (!authResult.success) { 401 ...; return }
authorized(result) == result.success

unauthorized(res, result) ==
  respondJson(res, 401, [error |-> Str("Unauthorized"), details |-> result.error])

\* the outer catch (err): a second writeHead on a response whose head is already
\* written throws ERR_HTTP_HEADERS_SENT, which then leaves the handler.
outerCatch(res, err) ==
  IF res.heads # <<>>
  THEN [res |-> res, pc |-> "threw", outer |-> "after"]
  ELSE [res |-> respondJson(res, 500,
                  [error |-> Str("Failed to process request"),
                   details |-> Str(IF err.isError THEN err.message ELSE "Unknown error")]),
        pc |-> "ended", outer |-> "before"]

\* pumpCatch, were it to rethrow: the failure reaches the outer catch
pumpCatchRethrow(res, err) == outerCatch(res, err)

\* pump's own catch (error): console.error; res.end()
pumpCatch(res, err) == [res |-> end(res, NoPayload), pc |-> "ended", outer |-> "no"]

\* The synchronous code from `try {` to the first reader.read(), given the body
\* parseRequestBody produced: what is written, where the handler stops, what it called.
completion(v, e, res, body) ==
  LET parseResult == safeParse(v, body)
      stay == [res |-> res, pc |-> "ended", outer |-> "no", relay |-> "NONE", clients |-> 0, streams |-> <<>>]
  IN
  IF body.kind = "unparseable"
  THEN LET c == outerCatch(res, Err("Unexpected token in JSON")) IN
       [stay EXCEPT !.res = c.res, !.pc = c.pc, !.outer = c.outer]
  ELSE IF ~parseResult.success
  THEN [stay EXCEPT !.res = respondJson(res, 400,
          [error |-> Str("Invalid request body"), details |-> Arr(parseResult.errors)])]
  ELSE IF body.model.v.uri.t # "string" \/ ~isDeployment(v, body.model.v.uri.v)
  THEN [stay EXCEPT !.res = respondJson(res, 400, [error |-> Str("Invalid deployment in model.uri")])]
  ELSE LET azure == makeAzureProviderInstance(e) IN
       IF azure.threw
       THEN LET c == outerCatch(res, azure.exc) IN
            [stay EXCEPT !.res = c.res, !.pc = c.pc, !.outer = c.outer, !.relay = "ERROR"]
       ELSE [stay EXCEPT
               !.res = writeHead(res, 200, "text/plain; charset=utf-8"),
               !.pc = "streaming",
               !.relay = "STREAMING",
               !.clients = 1,
               !.streams = <<[deployment |-> body.model.v.uri.v,
                              messages |-> coreMessages(body.messages.v)]>>]

\* after verifyAuthentication returned (or at once where there is no gate)
\* afterAuth, were the authentication result kept where every request sees it
afterAuthShared(v, res, result) ==
  LET shared == IF \E q \in DOMAIN auth : auth[q].result.success THEN Success ELSE result IN
  IF hasAuthGate(v) /\ ~authorized(shared)
  THEN [res |-> unauthorized(res, shared), pc |-> "ended", bodyReads |-> 0]
  ELSE [res |-> res, pc |-> "body", bodyReads |-> 1]

afterAuth(v, res, result) ==
  IF hasAuthGate(v) /\ ~authorized(result)
  THEN [res |-> unauthorized(res, result), pc |-> "ended", bodyReads |-> 0]
  ELSE [res |-> res, pc |-> "body", bodyReads |-> 1]

(***************************************************************************)
(* State machine.                                                          *)
(***************************************************************************)
Init ==
  /\ variant \in {"auth", "plain"}
  /\ env \in Envs
  /\ crashed = FALSE
  /\ pc = [r \in Reqs |-> "idle"]
  /\ req = [r \in Reqs |-> NewReq]
  /\ auth = [r \in Reqs |-> NewAuth]
  /\ checks = [r \in Reqs |-> NoChecks]
  /\ resp = [r \in Reqs |-> NewResponse]
  /\ relay = [r \in Reqs |-> "NONE"]
  /\ provided = [r \in Reqs |-> <<>>]
  /\ hist = [r \in Reqs |-> NewHist]

\* A request arrives and the handler runs to its first await (or to its end).
Arrive(r) ==
  /\ ~crashed
  /\ pc[r] = "idle"
  /\ \E path \in Paths, method \in Methods, authHeader \in AuthHeaders :
       LET before == authBeforeFetch(authHeader, env)
           gate == afterAuth(variant, resp[r], before.result)
           toGate == path = "/v1/chat/completions" /\ method = "POST" /\ ~urlThrows(variant)
                     /\ hasAuthGate(variant)
       IN
       \* the Authorization header is an input only where the handler reads it
       /\ ~toGate => authHeader = NoHeader
       /\ req' = [req EXCEPT ![r] = [@ EXCEPT !.path = path, !.method = method, !.authHeader = authHeader]]
       /\ UNCHANGED <<variant, env, relay, provided>>
       /\ IF urlThrows(variant)
          THEN /\ pc' = [pc EXCEPT ![r] = "threw"]
               /\ crashed' = TRUE
               /\ UNCHANGED <<auth, checks, resp, hist>>
          ELSE IF hasHealth(variant) /\ path = "/health"
          THEN \* checkHealth up to its await fetch(..., {method: 'HEAD'})
               /\ checks' = [checks EXCEPT ![r] =
                    [k \in {"environment", "azureConnection"} |->
                       IF k = "environment" THEN environmentCheck(env) ELSE azureConnectionCheck(env)]]
               /\ hist' = [hist EXCEPT ![r].identityCalls = Append(@, [method |-> "HEAD", token |-> <<>>])]
               /\ pc' = [pc EXCEPT ![r] = "health_probe"]
               /\ UNCHANGED <<crashed, auth, resp>>
          ELSE IF path = "/v1/chat/completions"
          THEN IF method # "POST"
               THEN /\ resp' = [resp EXCEPT ![r] = respondText(@, 405, "Method Not Allowed")]
                    /\ pc' = [pc EXCEPT ![r] = "ended"]
                    /\ UNCHANGED <<crashed, auth, checks, hist>>
               ELSE IF hasAuthGate(variant)
               THEN /\ auth' = [auth EXCEPT ![r] = [@ EXCEPT !.checked = TRUE, !.token = before.token,
                                                              !.result = before.result]]
                    /\ UNCHANGED <<crashed, checks>>
                    /\ IF before.next = "fetch"
                       THEN /\ hist' = [hist EXCEPT ![r].identityCalls =
                                          Append(@, [method |-> "GET", token |-> before.token.text])]
                            /\ pc' = [pc EXCEPT ![r] = "auth_fetch"]
                            /\ UNCHANGED resp
                       ELSE /\ resp' = [resp EXCEPT ![r] = gate.res]
                            /\ pc' = [pc EXCEPT ![r] = gate.pc]
                            /\ hist' = [hist EXCEPT ![r].bodyReads = @ + gate.bodyReads]
               ELSE /\ pc' = [pc EXCEPT ![r] = "body"]
                    /\ hist' = [hist EXCEPT ![r].bodyReads = @ + 1]
                    /\ UNCHANGED <<crashed, auth, checks, resp>>
          ELSE /\ resp' = [resp EXCEPT ![r] = respondText(@, 404, "Not Found")]
               /\ pc' = [pc EXCEPT ![r] = "ended"]
               /\ UNCHANGED <<crashed, auth, checks, hist>>

\* checkHealth's identity probe settles; the health response is written.
HealthProbe(r) ==
  /\ ~crashed
  /\ pc[r] = "health_probe"
  /\ \E o \in FetchOutcomes(env["CLERK_OAUTH_USER_INFO_URL"]) :
       LET cs == [k \in {"environment", "azureConnection", "clerkService"} |->
                    IF k = "clerkService" THEN clerkServiceCheck(o) ELSE checks[r][k]]
       IN /\ checks' = [checks EXCEPT ![r] = cs]
          /\ auth' = [auth EXCEPT ![r].outcome = o]
          /\ resp' = [resp EXCEPT ![r] = respondHealth(@, cs)]
          /\ pc' = [pc EXCEPT ![r] = "ended"]
  /\ UNCHANGED <<variant, env, crashed, req, relay, provided, hist>>

\* verifyAuthentication's fetch settles.
AuthFetch(r) ==
  /\ ~crashed
  /\ pc[r] = "auth_fetch"
  /\ \E o \in FetchOutcomes(env["CLERK_OAUTH_USER_INFO_URL"]) :
       IF o.kind = "response" /\ ok(o.status)
       THEN /\ auth' = [auth EXCEPT ![r].outcome = o]
            /\ pc' = [pc EXCEPT ![r] = "auth_json"]
            /\ UNCHANGED <<resp, hist>>
       ELSE LET result == IF o.kind = "throw" THEN authCatch(o.exc) ELSE authNotOk(o.status)
                gate == afterAuth(variant, resp[r], result)
            IN /\ auth' = [auth EXCEPT ![r] = [@ EXCEPT !.outcome = o, !.result = result]]
               /\ resp' = [resp EXCEPT ![r] = gate.res]
               /\ pc' = [pc EXCEPT ![r] = gate.pc]
               /\ hist' = [hist EXCEPT ![r].bodyReads = @ + gate.bodyReads]
  /\ UNCHANGED <<variant, env, crashed, req, checks, relay, provided>>

\* response.json() settles; verifyAuthentication returns and the gate decides.
AuthJson(r) ==
  /\ ~crashed
  /\ pc[r] = "auth_json"
  /\ \E j \in JsonOutcomes :
       LET result == authAfterJson(j)
           gate == afterAuth(variant, resp[r], result)
       IN /\ auth' = [auth EXCEPT ![r] = [@ EXCEPT !.json = j, !.result = result]]
          /\ resp' = [resp EXCEPT ![r] = gate.res]
          /\ pc' = [pc EXCEPT ![r] = gate.pc]
          /\ hist' = [hist EXCEPT ![r].bodyReads = @ + gate.bodyReads]
  /\ UNCHANGED <<variant, env, crashed, req, checks, relay, provided>>

\* parseRequestBody settles; validation, deployment check, adapter, provider call
\* and the response head run up to the first reader.read().
BodyEnd(r) ==
  /\ ~crashed
  /\ pc[r] = "body"
  /\ \E body \in Bodies :
       LET c == completion(variant, env, resp[r], body) IN
       /\ req' = [req EXCEPT ![r].body = body]
       /\ resp' = [resp EXCEPT ![r] = c.res]
       /\ pc' = [pc EXCEPT ![r] = c.pc]
       /\ relay' = [relay EXCEPT ![r] = c.relay]
       /\ hist' = [hist EXCEPT ![r] = [@ EXCEPT !.clients = @ + c.clients, !.streams = @ \o c.streams,
                                                !.outer = c.outer]]
       /\ crashed' = (c.pc = "threw")
  /\ UNCHANGED <<variant, env, auth, checks, provided>>

\* One turn of pump: reader.read() settles with a chunk, with done, or rejects.
PumpRead(r) ==
  /\ ~crashed
  /\ pc[r] = "streaming"
  /\ \/ \E chunk \in Chunks, writeThrows \in BOOLEAN :
          /\ Len(provided[r]) < MaxChunks
          /\ provided' = [provided EXCEPT ![r] = Append(@, chunk)]
          /\ IF writeThrows
             THEN LET c == pumpCatch(resp[r], Err("write failed")) IN
                  /\ resp' = [resp EXCEPT ![r] = c.res]
                  /\ pc' = [pc EXCEPT ![r] = c.pc]
                  /\ hist' = [hist EXCEPT ![r].outer = c.outer]
                  /\ relay' = [relay EXCEPT ![r] = "ERROR"]
                  /\ crashed' = (c.pc = "threw")
             ELSE /\ resp' = [resp EXCEPT ![r] = write(@, chunk)]
                  /\ UNCHANGED <<pc, hist, relay, crashed>>
     \/ \* { done: true }
        /\ resp' = [resp EXCEPT ![r] = end(@, NoPayload)]
        /\ pc' = [pc EXCEPT ![r] = "ended"]
        /\ relay' = [relay EXCEPT ![r] = "DONE"]
        /\ UNCHANGED <<provided, hist, crashed>>
     \/ \* reader.read() rejects
        LET c == pumpCatch(resp[r], Err("stream failed")) IN
        /\ resp' = [resp EXCEPT ![r] = c.res]
        /\ pc' = [pc EXCEPT ![r] = c.pc]
        /\ hist' = [hist EXCEPT ![r].outer = c.outer]
        /\ relay' = [relay EXCEPT ![r] = "ERROR"]
        /\ crashed' = (c.pc = "threw")
        /\ UNCHANGED provided
  /\ UNCHANGED <<variant, env, req, auth, checks>>

Next ==
  \/ \E r \in DOMAIN pc : Arrive(r)
  \/ \E r \in DOMAIN pc : HealthProbe(r)
  \/ \E r \in DOMAIN pc : AuthFetch(r)
  \/ \E r \in DOMAIN pc : AuthJson(r)
  \/ \E r \in DOMAIN pc : BodyEnd(r)
  \/ \E r \in DOMAIN pc : PumpRead(r)

Spec == Init /\ [][Next]_vars

(***************************************************************************)
(* Vocabulary of the properties.                                           *)
(***************************************************************************)
IsPrefix(s, t) == Len(s) <= Len(t) /\ SubSeq(t, 1, Len(s)) = s
Finished(r) == pc[r] \in {"ended", "threw"}
IsCompletionsPost(r) == req[r].path = "/v1/chat/completions" /\ req[r].method = "POST"
\* verifyAuthentication has returned for request r
AuthReturned(r) == auth[r].checked /\ pc[r] \notin {"auth_fetch", "auth_json"}
ProviderInvoked(r) == hist[r].clients > 0 \/ hist[r].streams # <<>>
GetCalls(r) == {k \in 1..Len(hist[r].identityCalls) : hist[r].identityCalls[k].method = "GET"}
IsJson(res) == res.payload.kind = "json" /\ res.ctype = "application/json"
IsText(res) == res.payload.kind = "text" /\ res.ctype = "text/plain"

(***************************************************************************)
(* C1: authentication is a gate.  In the authenticated variant, whenever   *)
(* verifyAuthentication returned success=false for a request, its response *)
(* is 401 with the JSON body {error: "Unauthorized", details: <reason>},   *)
(* its body was never read, and no provider client or stream was made for  *)
(* it; and the provider is invoked for a request only after                *)
(* verifyAuthentication returned success=true for that request.            *)
(***************************************************************************)
C1_AuthGate ==
  variant = "auth" =>
    \A r \in DOMAIN pc :
      /\ (AuthReturned(r) /\ ~auth[r].result.success) =>
           /\ pc[r] = "ended"
           /\ resp[r].heads = <<401>>
           /\ resp[r].ends = 1
           /\ IsJson(resp[r])
           /\ DOMAIN resp[r].payload.json = {"error", "details"}
           /\ resp[r].payload.json.error = Str("Unauthorized")
           /\ resp[r].payload.json.details = auth[r].result.error
           /\ resp[r].payload.json.details.t = "string"
           /\ hist[r].bodyReads = 0
           /\ ~ProviderInvoked(r)
      /\ (ProviderInvoked(r) \/ hist[r].bodyReads > 0) =>
           (AuthReturned(r) /\ auth[r].result.success)

\* a request the identity endpoint answered with 503 has been answered 401
C1_Witness ==
  \E r \in DOMAIN pc :
    /\ variant = "auth"
    /\ AuthReturned(r)
    /\ auth[r].outcome.kind = "response" /\ auth[r].outcome.status = 503
    /\ resp[r].heads = <<401>>

(***************************************************************************)
(* C2: chunked relay preserves order and boundaries.  The chunks written   *)
(* to the response are always a prefix of the chunks read from the         *)
(* provider stream; while the request is STREAMING every chunk read has    *)
(* been written (one write per read, nothing held back, merged, reordered  *)
(* or dropped); when the stream signals completion after c1..cn the body   *)
(* is exactly c1..cn, the response is ended once with no payload, and no   *)
(* step writes to it afterwards.                                           *)
(***************************************************************************)
C2_Relayed ==
  \A r \in DOMAIN pc :
    /\ IsPrefix(resp[r].chunks, provided[r])
    /\ relay[r] = "STREAMING" =>
         /\ pc[r] = "streaming"
         /\ resp[r].chunks = provided[r]
         /\ resp[r].ends = 0
    /\ relay[r] = "DONE" =>
         /\ pc[r] = "ended"
         /\ resp[r].chunks = provided[r]
         /\ join(resp[r].chunks, "") = join(provided[r], "")
         /\ resp[r].payload.kind = "none"
         /\ resp[r].ends = 1

C2_StepWise ==
  \A r \in DOMAIN pc :
    /\ relay[r] = "STREAMING" /\ relay'[r] = "STREAMING" /\ provided'[r] # provided[r] =>
         /\ Len(provided'[r]) = Len(provided[r]) + 1
         /\ resp'[r].chunks = Append(resp[r].chunks, provided'[r][Len(provided'[r])])
    /\ relay[r] = "DONE" => resp'[r] = resp[r]

C2_ChunkedRelay == []C2_Relayed /\ [][C2_StepWise]_vars

\* the stream yielded "Hel", "lo" and ended: the body is "Hello"
C2_Witness ==
  \E r \in DOMAIN pc :
    /\ relay[r] = "DONE"
    /\ provided[r] = <<"Hel", "lo">>
    /\ resp[r].chunks = <<"Hel", "lo">>
    /\ join(resp[r].chunks, "") = "Hello"
    /\ resp[r].ends = 1

(***************************************************************************)
(* C3: the response status is committed once.  Once the 200 head has been  *)
(* written no second head and no JSON error body is written; a failed      *)
(* read or write while streaming ends the response (ERROR) with nothing    *)
(* added after the chunks already relayed, the status stays 200, and the   *)
(* outer catch with its 500 is never entered after the head is written.    *)
(***************************************************************************)
\* the 200 head with the streaming headers has been written for request r
StreamingHeadWritten(r) ==
  hist[r].streams # <<>> /\ Len(resp[r].heads) > 0 /\ resp[r].heads[1] = 200

C3_Committed ==
  \A r \in DOMAIN pc :
    StreamingHeadWritten(r) =>
       /\ resp[r].heads = <<200>>
       /\ resp[r].ctype = "text/plain; charset=utf-8"
       /\ resp[r].payload.kind = "none"
       /\ hist[r].outer = "no"
       /\ pc[r] \in {"streaming", "ended"}
       /\ relay[r] \in {"STREAMING", "DONE", "ERROR"}
       /\ relay[r] = "ERROR" =>
            /\ pc[r] = "ended"
            /\ resp[r].ends = 1
            /\ IsPrefix(resp[r].chunks, provided[r])
            /\ Len(provided[r]) <= Len(resp[r].chunks) + 1

C3_StepWise ==
  \A r \in DOMAIN pc :
    /\ StreamingHeadWritten(r) => resp'[r].heads = <<200>>
    /\ relay[r] = "STREAMING" /\ relay'[r] = "ERROR" =>
         /\ resp'[r].chunks = resp[r].chunks
         /\ resp'[r].ends = 1
    /\ relay[r] = "STREAMING" /\ pc'[r] # "streaming" => relay'[r] \in {"DONE", "ERROR"}
    /\ relay[r] = "ERROR" => resp'[r] = resp[r]

C3_StatusCommittedOnce == []C3_Committed /\ [][C3_StepWise]_vars

\* a read failed after one chunk was relayed: the response ended with that chunk only
C3_Witness ==
  \E r \in DOMAIN pc :
    /\ relay[r] = "ERROR"
    /\ resp[r].heads = <<200>>
    /\ resp[r].chunks = <<"Hel">>
    /\ provided[r] = <<"Hel">>
    /\ resp[r].ends = 1

(***************************************************************************)
(* C4: every failure before streaming begins (unparseable body, invalid    *)
(* body, unknown deployment, authentication failure, missing provider      *)
(* configuration) produces exactly one complete response with a 4xx/5xx    *)
(* status and a JSON body, no such failure leaves the handler as an        *)
(* uncaught exception, and the process stays able to answer later          *)
(* requests, in either variant.                                            *)
(***************************************************************************)
\* request r is a POST to the completions path whose handling is over without
\* the streaming head having been written
FailedBeforeStreaming(r) ==
  IsCompletionsPost(r) /\ Finished(r) /\ ~StreamingHeadWritten(r)

OneJsonErrorResponse(res) ==
  /\ Len(res.heads) = 1
  /\ res.heads[1] >= 400 /\ res.heads[1] <= 599
  /\ IsJson(res)
  /\ "error" \in DOMAIN res.payload.json
  /\ res.ends = 1
  /\ res.chunks = <<>>

C4_Handled(r) ==
  FailedBeforeStreaming(r) =>
    /\ pc[r] = "ended"
    /\ OneJsonErrorResponse(resp[r])
    /\ ~crashed

C4_FailuresBeforeStreaming == \A r \in DOMAIN pc : C4_Handled(r)

\* the same statement of the authenticated variant alone, where it holds
C4_InAuthVariant == variant = "auth" => \A r \in DOMAIN pc : C4_Handled(r)

(***************************************************************************)
(* C5: schema validation failure is a 400.  Every POST to the completions  *)
(* path (that passed authentication, in the authenticated variant) whose   *)
(* body lacks messages, lacks model.uri, has a message with a role outside *)
(* the allowed set or a part whose type is not "text" is answered 400 with *)
(* {error: "Invalid request body", details: <non-empty list naming the     *)
(* offending field path>}, and the provider is never invoked for it.       *)
(* A handler that ended without reading the body answered every body the   *)
(* request may have carried, a defective one included.                     *)
(***************************************************************************)
PassedGate(r) == variant = "auth" => (AuthReturned(r) /\ auth[r].result.success)

\* the field paths at which body b offends the schema; a missing object is named
\* by the path of the outermost missing member
OffendingPaths(v, b) ==
  IF b.kind # "object" THEN {}
  ELSE (IF b.messages.t = "undefined" THEN {<<"messages">>} ELSE {})
       \cup (IF b.model.t = "undefined" THEN {<<"model">>}
             ELSE IF b.model.v.uri.t = "undefined" THEN {<<"model", "uri">>} ELSE {})
       \cup (IF b.messages.t # "array" THEN {}
             ELSE {<<"messages", ToString(i - 1), "role">> :
                     i \in {k \in 1..Len(b.messages.v) : b.messages.v[k].role \notin AllowedRoles(v)}}
                  \cup UNION {{<<"messages", ToString(i - 1), "parts", ToString(j - 1), "type">> :
                                 j \in {k \in 1..Len(b.messages.v[i].parts) :
                                          b.messages.v[i].parts[k].type # "text"}} :
                              i \in 1..Len(b.messages.v)})

Defective(v, b) == b.kind = "null" \/ OffendingPaths(v, b) # {}

Names(details, path) == \E k \in 1..Len(details) : details[k].path = path

C5_Rejected(r) ==
  (IsCompletionsPost(r) /\ Finished(r) /\ PassedGate(r)
     /\ (req[r].body = Unread \/ Defective(variant, req[r].body))) =>
    /\ resp[r].heads = <<400>>
    /\ resp[r].ends = 1
    /\ IsJson(resp[r])
    /\ DOMAIN resp[r].payload.json = {"error", "details"}
    /\ resp[r].payload.json.error = Str("Invalid request body")
    /\ resp[r].payload.json.details.t = "array"
    /\ resp[r].payload.json.details.v # <<>>
    /\ \A path \in OffendingPaths(variant, req[r].body) : Names(resp[r].payload.json.details.v, path)
    /\ ~ProviderInvoked(r)

C5_SchemaFailureIs400 == \A r \in DOMAIN pc : C5_Rejected(r)

\* the same statement of the authenticated variant alone, where it holds
C5_InAuthVariant == variant = "auth" => \A r \in DOMAIN pc : C5_Rejected(r)

(***************************************************************************)
(* C6: unknown deployment is a distinct 400.  Every schema-valid request   *)
(* whose model.uri is not accepted by isDeployment is answered 400 with    *)
(* the body exactly {error: "Invalid deployment in model.uri"}, without    *)
(* the provider client being constructed or streamText invoked; and a      *)
(* request reaches provider construction only if isDeployment(model.uri).  *)
(* A handler that ended without reading the body answered every body the   *)
(* request may have carried, one naming an unknown deployment included.    *)
(***************************************************************************)
UnknownDeployment(v, b) ==
  b.kind = "object" /\ safeParse(v, b).success /\ ~isDeployment(v, b.model.v.uri.v)

C6_Rejected(r) ==
  /\ (IsCompletionsPost(r) /\ Finished(r) /\ PassedGate(r)
        /\ (req[r].body = Unread \/ UnknownDeployment(variant, req[r].body))) =>
       /\ resp[r].heads = <<400>>
       /\ resp[r].ends = 1
       /\ IsJson(resp[r])
       /\ DOMAIN resp[r].payload.json = {"error"}
       /\ resp[r].payload.json.error = Str("Invalid deployment in model.uri")
       /\ ~ProviderInvoked(r)
  /\ ProviderInvoked(r) =>
       /\ req[r].body.kind = "object"
       /\ safeParse(variant, req[r].body).success
       /\ isDeployment(variant, req[r].body.model.v.uri.v)

C6_UnknownDeploymentIs400 == \A r \in DOMAIN pc : C6_Rejected(r)

\* the same statement of the authenticated variant alone, where it holds
C6_InAuthVariant == variant = "auth" => \A r \in DOMAIN pc : C6_Rejected(r)

(***************************************************************************)
(* C7: health status.  /health answers 200 with status "healthy" exactly   *)
(* when every required configuration value is set and the provider client  *)
(* constructs (resource name and API key set), and 503 with "unhealthy"    *)
(* otherwise; the identity probe's result never changes either; the body   *)
(* always carries the three checks environment, azureConnection and        *)
(* clerkService, the last one reflecting this call's own probe.            *)
(***************************************************************************)
ConfigurationPresent == \A n \in EnvNames : env[n]
ClientConstructs == env["AZURE_AI_RESOURCE_NAME"] /\ env["AZURE_AI_API_KEY"]
IsHealthRequest(r) == variant = "auth" /\ req[r].path = "/health"
ProbeOk(r) == auth[r].outcome.kind = "response" /\ auth[r].outcome.status \in 200..299

C7_HealthStatus ==
  \A r \in DOMAIN pc :
    (IsHealthRequest(r) /\ Finished(r)) =>
      LET body == resp[r].payload.json
          healthy == ConfigurationPresent /\ ClientConstructs
      IN /\ pc[r] = "ended"
         /\ resp[r].ends = 1
         /\ IsJson(resp[r])
         /\ resp[r].heads = IF healthy THEN <<200>> ELSE <<503>>
         /\ body.status = IF healthy THEN Str("healthy") ELSE Str("unhealthy")
         /\ body.checks.t = "object"
         /\ DOMAIN body.checks.v = {"environment", "azureConnection", "clerkService"}
         /\ body.checks.v.environment.v.status = IF ConfigurationPresent THEN Str("ok") ELSE Str("error")
         /\ body.checks.v.azureConnection.v.status = IF ClientConstructs THEN Str("ok") ELSE Str("error")
         /\ body.checks.v.clerkService.v.status = IF ProbeOk(r) THEN Str("ok") ELSE Str("error")

\* the identity probe failed and the configuration is complete: still 200 healthy
C7_Witness ==
  \E r \in DOMAIN pc :
    /\ IsHealthRequest(r) /\ Finished(r)
    /\ ConfigurationPresent
    /\ auth[r].outcome.kind = "throw"
    /\ resp[r].heads = <<200>>
    /\ resp[r].payload.json.checks.v.clerkService.v.status = Str("error")

(***************************************************************************)
(* C8: in the authenticated variant a POST to the completions path with no *)
(* Authorization header, with one that does not start with "Bearer ", or   *)
(* with an empty token is answered 401, and no call to the identity        *)
(* endpoint is made while it is handled.                                   *)
(***************************************************************************)
\* the header carries no bearer token
NoBearerToken(h) ==
  \/ ~h.defined
  \/ Len(h.text) < 7
  \/ \E k \in 1..7 : h.text[k] # BearerPrefix[k]
  \/ Len(h.text) = 7

C8_Unauthenticated(r) ==
  (variant = "auth" /\ IsCompletionsPost(r) /\ pc[r] # "idle" /\ NoBearerToken(req[r].authHeader)) =>
    /\ pc[r] = "ended"
    /\ resp[r].heads = <<401>>
    /\ resp[r].ends = 1
    /\ hist[r].identityCalls = <<>>

C8_NoTokenNoIdentityCall == \A r \in DOMAIN pc : C8_Unauthenticated(r)

\* a request with the header "bearer t" (wrong case) was answered 401 without a call
C8_Witness ==
  \E r \in DOMAIN pc :
    /\ variant = "auth" /\ IsCompletionsPost(r)
    /\ req[r].authHeader = Header(<<"b", "e", "a", "r", "e", "r", " ", "t">>)
    /\ resp[r].heads = <<401>>
    /\ hist[r].identityCalls = <<>>

(***************************************************************************)
(* C9 as stated: identity answers 401 -> local 401 "Invalid or expired     *)
(* access token"; any other non-2xx -> local 401 "Authentication service   *)
(* unavailable"; the call or the parsing of its reply raises -> local 401  *)
(* with the internal-error-during-authentication reason; success only when *)
(* the endpoint answered 2xx and its reply parsed.                         *)
(***************************************************************************)
IdentityCalled(r) == variant = "auth" /\ GetCalls(r) # {} /\ AuthReturned(r)
IdentityRaised(r) ==
  auth[r].outcome.kind = "throw" \/ (auth[r].outcome.kind = "response" /\ auth[r].json = "unparseable")
Answered401(r, reason) ==
  /\ ~auth[r].result.success
  /\ resp[r].heads = <<401>>
  /\ IsJson(resp[r])
  /\ resp[r].payload.json.error = Str("Unauthorized")
  /\ resp[r].payload.json.details = Str(reason)

C9_StatusMapping(r) ==
  /\ (auth[r].outcome.kind = "response" /\ auth[r].outcome.status = 401) =>
       Answered401(r, "Invalid or expired access token")
  /\ (auth[r].outcome.kind = "response" /\ auth[r].outcome.status \notin 200..299
        /\ auth[r].outcome.status # 401) =>
       Answered401(r, "Authentication service unavailable")
  /\ auth[r].result.success =>
       (auth[r].outcome.kind = "response" /\ auth[r].outcome.status \in 200..299
          /\ auth[r].json \notin {"none", "unparseable"})

C9_AsStated ==
  \A r \in DOMAIN pc :
    IdentityCalled(r) =>
      /\ C9_StatusMapping(r)
      /\ IdentityRaised(r) => Answered401(r, "Internal server error during authentication")

(***************************************************************************)
(* C9 (amended): as stated, except that when the call or the parsing of    *)
(* its reply raises an exception the reason of the local 401 is that       *)
(* exception's own message, and "Internal server error during              *)
(* authentication" only when the thrown value is not an Error.             *)
(***************************************************************************)
RaisedReason(r) ==
  IF auth[r].outcome.kind = "throw"
  THEN IF auth[r].outcome.exc.isError THEN auth[r].outcome.exc.message
       ELSE "Internal server error during authentication"
  ELSE "Unexpected token in JSON"

C9_OutcomeMapping ==
  \A r \in DOMAIN pc :
    IdentityCalled(r) =>
      /\ C9_StatusMapping(r)
      /\ IdentityRaised(r) => Answered401(r, RaisedReason(r))

\* the identity call failed with the Error "fetch failed": that message is the reason
C9_Witness ==
  \E r \in DOMAIN pc :
    /\ IdentityCalled(r)
    /\ auth[r].outcome = Threw(Err("fetch failed"))
    /\ Answered401(r, "fetch failed")

(***************************************************************************)
(* C10: routing.  Every request whose path is not a known path is          *)
(* answered 404 with a plain-text body, and every request to a known path  *)
(* (/v1/chat/completions: POST; /health: GET, in the variant that has it)  *)
(* made with another method is answered 405 with a plain-text body, in     *)
(* both variants and for every method.                                     *)
(***************************************************************************)
KnownPaths(v) == IF v = "auth" THEN {"/v1/chat/completions", "/health"} ELSE {"/v1/chat/completions"}
SupportedMethod(path) == IF path = "/health" THEN "GET" ELSE "POST"

C10_Routed(r) ==
  pc[r] # "idle" =>
    /\ req[r].path \notin KnownPaths(variant) =>
         (pc[r] = "ended" /\ resp[r].heads = <<404>> /\ IsText(resp[r]) /\ resp[r].ends = 1)
    /\ (req[r].path \in KnownPaths(variant) /\ req[r].method # SupportedMethod(req[r].path)) =>
         (pc[r] = "ended" /\ resp[r].heads = <<405>> /\ IsText(resp[r]) /\ resp[r].ends = 1)

C10_Routing == \A r \in DOMAIN pc : C10_Routed(r)

\* what does hold, in the authenticated variant: 404 for unknown paths and 405 for
\* the completions path; /health answers every method
C10_InAuthVariant ==
  variant = "auth" =>
    \A r \in DOMAIN pc :
      pc[r] # "idle" =>
        /\ req[r].path \notin KnownPaths(variant) =>
             (pc[r] = "ended" /\ resp[r].heads = <<404>> /\ IsText(resp[r]) /\ resp[r].ends = 1)
        /\ (req[r].path = "/v1/chat/completions" /\ req[r].method # "POST") =>
             (pc[r] = "ended" /\ resp[r].heads = <<405>> /\ IsText(resp[r]) /\ resp[r].ends = 1)

(***************************************************************************)
(* The validator, the deployment resolver and the message adapter applied  *)
(* on their own: one application per behaviour, to an input drawn from a   *)
(* bounded set, in either variant.                                         *)
(***************************************************************************)
MaxMsgs == 2     \* messages in a payload
MaxParts == 2    \* parts in a message

Texts == {"A", "B"}
Roles == {"system", "user", "assistant"}
PartSeqs == UNION {[1..n -> {Part("text", t) : t \in Texts}] : n \in 0..MaxParts}
MessageSeqs == UNION {[1..n -> {Msg(role, parts) : role \in Roles, parts \in PartSeqs}] : n \in 0..MaxMsgs}
DeploymentNames == {"gpt-4.1", "gpt-4.1-mini", "gpt-4.1-nano", "gpt-4o", "gpt-4o-mini", "o3-mini", "llama"}

ConfiguredEnv == [n \in EnvNames |-> TRUE]

InitPure ==
  /\ variant \in {"auth", "plain"}
  /\ env = ConfiguredEnv
  /\ crashed = FALSE
  /\ pc = [r \in {1} |-> "idle"]
  /\ req = [r \in {1} |-> NewReq]
  /\ auth = [r \in {1} |-> NewAuth]
  /\ checks = [r \in {1} |-> NoChecks]
  /\ resp = [r \in {1} |-> NewResponse]
  /\ relay = [r \in {1} |-> "NONE"]
  /\ provided = [r \in {1} |-> <<>>]
  /\ hist = [r \in {1} |-> NewHist]

\* PayloadSchema.safeParse, then messages.map(...) on the validated messages
ApplyAdapter(r) ==
  /\ pc[r] = "idle"
  /\ \E ms \in MessageSeqs :
       LET body == Body(Arr(ms), Model(Str("gpt-4o"))) IN
       /\ safeParse(variant, body).success
       /\ req' = [req EXCEPT ![r].body = body]
       /\ hist' = [hist EXCEPT ![r].streams =
                     <<[deployment |-> body.model.v.uri.v, messages |-> coreMessages(body.messages.v)]>>]
  /\ pc' = [pc EXCEPT ![r] = "adapted"]
  /\ UNCHANGED <<variant, env, crashed, auth, checks, resp, relay, provided>>

\* isDeployment(deployment), then model(deployment as CompletionDeployment)
ApplyResolver(r) ==
  /\ pc[r] = "idle"
  /\ \E s \in DeploymentNames :
       LET body == Body(Arr(<<>>), Model(Str(s))) IN
       /\ req' = [req EXCEPT ![r].body = body]
       /\ hist' = [hist EXCEPT ![r].streams =
                     IF isDeployment(variant, s)
                     THEN <<[deployment |-> s, messages |-> coreMessages(body.messages.v)]>>
                     ELSE <<>>]
  /\ pc' = [pc EXCEPT ![r] = "resolved"]
  /\ UNCHANGED <<variant, env, crashed, auth, checks, resp, relay, provided>>

NextPure ==
  \/ \E r \in DOMAIN pc : ApplyAdapter(r)
  \/ \E r \in DOMAIN pc : ApplyResolver(r)

SpecPure == InitPure /\ [][NextPure]_vars

(***************************************************************************)
(* C11: message adaptation is a length- and order-preserving map over the  *)
(* validated messages: the i-th adapted message comes from the i-th input  *)
(* message; a system message becomes {role: system, content: the texts of  *)
(* its parts joined by exactly one space}; a user message becomes          *)
(* {role: user, content: its parts array unchanged}.                        *)
(***************************************************************************)
\* t1 " " t2 " " ... tn, built from the left
RECURSIVE SpaceSeparated(_)
SpaceSeparated(texts) ==
  IF Len(texts) = 0 THEN ""
  ELSE IF Len(texts) = 1 THEN texts[1]
  ELSE SpaceSeparated(SubSeq(texts, 1, Len(texts) - 1)) \o " " \o texts[Len(texts)]

TextsOf(msg) == [j \in 1..Len(msg.parts) |-> msg.parts[j].text]
Adapted(r) == pc[r] = "adapted"
InputMessages(r) == req[r].body.messages.v
OutputMessages(r) == hist[r].streams[1].messages

C11_MessageAdaptation ==
  \A r \in DOMAIN pc :
    Adapted(r) =>
      /\ Len(OutputMessages(r)) = Len(InputMessages(r))
      /\ \A i \in 1..Len(InputMessages(r)) :
           LET in == InputMessages(r)[i]
               out == OutputMessages(r)[i]
           IN /\ in.role = "system" =>
                   /\ out.role = "system"
                   /\ out.content.t = "string"
                   /\ out.content.v = SpaceSeparated(TextsOf(in))
              /\ in.role = "user" =>
                   /\ out.role = "user"
                   /\ out.content.t = "array"
                   /\ out.content.v = in.parts

\* a system message with parts "A", "B" followed by a user message: "A B", then the parts
C11_Witness ==
  \E r \in DOMAIN pc :
    /\ Adapted(r)
    /\ Len(InputMessages(r)) = 2
    /\ InputMessages(r)[1] = Msg("system", <<Part("text", "A"), Part("text", "B")>>)
    /\ InputMessages(r)[2].role = "user"
    /\ OutputMessages(r)[1] = [role |-> "system", content |-> Str("A B")]
    /\ OutputMessages(r)[2] = [role |-> "user", content |-> Arr(InputMessages(r)[2].parts)]

(***************************************************************************)
(* C15: in each variant the deployment allow-list and the deployment type  *)
(* are in lockstep: a name is accepted by isDeployment, and so passed to   *)
(* model(), if and only if the variant's CompletionDeployment type lists   *)
(* it.                                                                     *)
(***************************************************************************)
Resolved(r) == pc[r] = "resolved"
RequestedName(r) == req[r].body.model.v.uri.v
PassedToModel(r) == hist[r].streams # <<>>

C15_Lockstep ==
  \A r \in DOMAIN pc :
    Resolved(r) => (PassedToModel(r) <=> RequestedName(r) \in CompletionDeployment(variant))

\* what holds: the lockstep in the authenticated variant
C15_InAuthVariant ==
  \A r \in DOMAIN pc :
    Resolved(r) /\ variant = "auth" =>
      (PassedToModel(r) <=> RequestedName(r) \in CompletionDeployment(variant))

\* the two names on which the plain variant's list and type disagree
C15_Drift ==
  \E r \in DOMAIN pc :
    /\ Resolved(r)
    /\ variant = "plain"
    /\ \/ RequestedName(r) = "gpt-4.1-nano" /\ ~PassedToModel(r)
       \/ RequestedName(r) = "o3-mini" /\ PassedToModel(r)

(***************************************************************************)
(* C16: where the validator accepts the assistant role, every validated    *)
(* assistant message is forwarded as a user-role message with its parts    *)
(* array unchanged, at its original position; no validated message is      *)
(* dropped and none is forwarded with role assistant.                      *)
(***************************************************************************)
C16_AssistantAsUser ==
  \A r \in DOMAIN pc :
    Adapted(r) /\ "assistant" \in AllowedRoles(variant) =>
      /\ Len(OutputMessages(r)) = Len(InputMessages(r))
      /\ \A i \in 1..Len(InputMessages(r)) :
           /\ OutputMessages(r)[i].role # "assistant"
           /\ InputMessages(r)[i].role = "assistant" =>
                OutputMessages(r)[i] = [role |-> "user", content |-> Arr(InputMessages(r)[i].parts)]

\* an assistant message in second place, forwarded in second place as a user message
C16_Witness ==
  \E r \in DOMAIN pc :
    /\ Adapted(r)
    /\ variant = "auth"
    /\ Len(InputMessages(r)) = 2
    /\ InputMessages(r)[1].role = "user"
    /\ InputMessages(r)[2] = Msg("assistant", <<Part("text", "B")>>)
    /\ OutputMessages(r)[2] = [role |-> "user", content |-> Arr(<<Part("text", "B")>>)]

(***************************************************************************)
(* Several requests in flight at once: the handler steps of different      *)
(* requests interleave at their awaits in every order.                     *)
(***************************************************************************)
ConcReqs == 2    \* requests in flight together

InitConc ==
  /\ variant \in {"auth", "plain"}
  /\ env = ConfiguredEnv
  /\ crashed = FALSE
  /\ pc = [r \in 1..ConcReqs |-> "idle"]
  /\ req = [r \in 1..ConcReqs |-> NewReq]
  /\ auth = [r \in 1..ConcReqs |-> NewAuth]
  /\ checks = [r \in 1..ConcReqs |-> NoChecks]
  /\ resp = [r \in 1..ConcReqs |-> NewResponse]
  /\ relay = [r \in 1..ConcReqs |-> "NONE"]
  /\ provided = [r \in 1..ConcReqs |-> <<>>]
  /\ hist = [r \in 1..ConcReqs |-> NewHist]

\* The inputs of a run with several requests: the alphabet of Spec, narrowed to
\* one value for each way a request can go.
ConcBodies == {Unparseable, Body(GoodMessages, Model(Str("gpt-4o"))), Body(GoodMessages, Model(Str("llama")))}
ConcHeaders == {NoHeader, Header(BearerPrefix \o <<"t">>)}
ConcOutcomes == {Responded(200), Responded(401), Threw(Err("fetch failed"))}

ConcInputs ==
  \A r \in DOMAIN pc :
    /\ req[r].path \in {"", "/v1/chat/completions", "/health"}
    /\ req[r].method \in {"", "POST"}
    /\ req[r].authHeader \in ConcHeaders
    /\ auth[r].outcome \in ConcOutcomes \cup {NoOutcome}
    /\ auth[r].json \in {"none", "object"}
    /\ req[r].body \in ConcBodies \cup {Unread}

NextConc ==
  \/ \E r \in DOMAIN pc : Arrive(r) /\ ConcInputs'
  \/ \E r \in DOMAIN pc : HealthProbe(r) /\ ConcInputs'
  \/ \E r \in DOMAIN pc : AuthFetch(r) /\ ConcInputs'
  \/ \E r \in DOMAIN pc : AuthJson(r) /\ ConcInputs'
  \/ \E r \in DOMAIN pc : BodyEnd(r) /\ ConcInputs'
  \/ \E r \in DOMAIN pc : PumpRead(r) /\ ConcInputs'

SpecConc == InitConc /\ [][NextConc]_vars

(***************************************************************************)
(* C13: no verification result is cached.  In the authenticated variant    *)
(* with the identity URL configured, every POST to the completions path    *)
(* with a non-empty Bearer token makes exactly one identity call, carrying *)
(* its own token, during its own handling, whatever other requests have    *)
(* verified; a failed call is not retried.                                 *)
(***************************************************************************)
CarriesToken(r) ==
  /\ variant = "auth"
  /\ env["CLERK_OAUTH_USER_INFO_URL"]
  /\ IsCompletionsPost(r)
  /\ pc[r] # "idle"
  /\ ~NoBearerToken(req[r].authHeader)
  /\ Len(req[r].authHeader.text) > Len(BearerPrefix)

C13_OneIdentityCall ==
  \A r \in DOMAIN pc :
    CarriesToken(r) =>
      /\ Len(hist[r].identityCalls) = 1
      /\ hist[r].identityCalls[1] = [method |-> "GET", token |-> extractBearerToken(req[r].authHeader).text]

\* a request's call is outstanding while another request has already had the same token verified
C13_Witness ==
  \E r, q \in DOMAIN pc :
    /\ r # q
    /\ CarriesToken(r) /\ CarriesToken(q)
    /\ req[r].authHeader = req[q].authHeader
    /\ auth[q].result.success
    /\ pc[r] = "auth_fetch"
    /\ Len(hist[r].identityCalls) = 1

\* a request whose one call failed was answered 401 with no second call
C13_NoRetry ==
  \E r \in DOMAIN pc :
    /\ CarriesToken(r)
    /\ auth[r].outcome.kind = "throw"
    /\ pc[r] = "ended"
    /\ resp[r].heads = <<401>>
    /\ Len(hist[r].identityCalls) = 1

(***************************************************************************)
(* C12: requests are independent under concurrency.  With the awaits of    *)
(* several requests interleaved in any order, each request's response is   *)
(* the one it gets when handled alone, a function of its own inputs and of *)
(* the outcomes of its own awaits: the chunks written to a response are    *)
(* chunks read from that request's own stream, and a request is admitted   *)
(* or rejected on its own authentication result.                           *)
(***************************************************************************)
\* the result verifyAuthentication returns for request r's own header and call
OwnAuthResult(r) ==
  LET before == authBeforeFetch(req[r].authHeader, env) IN
  IF before.next = "return" THEN before.result
  ELSE IF auth[r].outcome.kind = "throw" THEN authCatch(auth[r].outcome.exc)
  ELSE IF ~ok(auth[r].outcome.status) THEN authNotOk(auth[r].outcome.status)
  ELSE authAfterJson(auth[r].json)

\* the response of request r handled alone, up to the first stream read
AloneResponse(r) ==
  IF urlThrows(variant) THEN NewResponse
  ELSE IF hasHealth(variant) /\ req[r].path = "/health"
  THEN respondHealth(NewResponse,
         [k \in {"environment", "azureConnection", "clerkService"} |->
            CASE k = "environment" -> environmentCheck(env)
              [] k = "azureConnection" -> azureConnectionCheck(env)
              [] OTHER -> clerkServiceCheck(auth[r].outcome)])
  ELSE IF req[r].path = "/v1/chat/completions"
  THEN IF req[r].method # "POST"
       THEN respondText(NewResponse, 405, "Method Not Allowed")
       ELSE IF hasAuthGate(variant) /\ ~OwnAuthResult(r).success
       THEN unauthorized(NewResponse, OwnAuthResult(r))
       ELSE completion(variant, env, NewResponse, req[r].body).res
  ELSE respondText(NewResponse, 404, "Not Found")

Streamed(r) == hist[r].streams # <<>>

C12_Independent ==
  \A r \in DOMAIN pc :
    \* chunks come from the request's own stream, in order
    /\ IsPrefix(resp[r].chunks, provided[r])
    /\ Len(provided[r]) <= Len(resp[r].chunks) + 1
    \* the gate opens on the request's own result only
    /\ (hasAuthGate(variant) /\ (hist[r].bodyReads > 0 \/ ProviderInvoked(r))) => OwnAuthResult(r).success
    \* the finished response is the one the request gets alone
    /\ (Finished(r) /\ ~Streamed(r)) => resp[r] = AloneResponse(r)
    /\ (Finished(r) /\ Streamed(r)) =>
          /\ resp[r].heads = AloneResponse(r).heads
          /\ resp[r].ctype = AloneResponse(r).ctype
          /\ resp[r].payload = NoPayload
          /\ resp[r].ends = 1
          /\ relay[r] = "DONE" => resp[r].chunks = provided[r]

\* two requests stream at once, each with its own chunk written
C12_Witness ==
  \E r, q \in DOMAIN pc :
    /\ r # q
    /\ pc[r] = "streaming" /\ pc[q] = "streaming"
    /\ resp[r].chunks = <<"Hel">> /\ provided[r] = <<"Hel">>
    /\ resp[q].chunks = <<"lo">> /\ provided[q] = <<"lo">>

\* one request is answered 401 on its own failed call while another, with the same
\* header, has been admitted and has streamed to the end
C12_OwnGate ==
  \E r, q \in DOMAIN pc :
    /\ r # q
    /\ req[r].authHeader = req[q].authHeader
    /\ pc[r] = "ended" /\ resp[r].heads = <<401>> /\ auth[r].outcome = Responded(401)
    /\ pc[q] = "ended" /\ relay[q] = "DONE" /\ resp[q].chunks = <<"Hel", "lo">>
(***************************************************************************)
(* Scheduling.  The event loop runs the continuation of every await that   *)
(* settles.  The body arrives, the identity call and the health probe      *)
(* settle, and each stream read settles; a stream yields at most MaxChunks *)
(* chunks before it completes or fails.  Nothing obliges a request to      *)
(* arrive.                                                                 *)
(***************************************************************************)
Fairness ==
  \A r \in Reqs :
    /\ WF_vars(HealthProbe(r))
    /\ WF_vars(AuthFetch(r))
    /\ WF_vars(AuthJson(r))
    /\ WF_vars(BodyEnd(r))
    /\ WF_vars(PumpRead(r))

FairSpec == Init /\ [][Next]_vars /\ Fairness

(***************************************************************************)
(* C14: every request terminates.  Given that the body arrives, that the   *)
(* identity call settles and that the stream's reads settle and the stream *)
(* completes or fails, every request that has arrived eventually has its   *)
(* response ended, and a response is ended exactly once on every path.     *)
(***************************************************************************)
Arrived(r) == pc[r] # "idle"
ResponseEnded(r) == resp[r].ends = 1
EndedAtMostOnce == \A r \in Reqs : resp[r].ends <= 1 /\ (pc[r] = "ended" => resp[r].ends = 1)

C14_EveryRequestTerminates ==
  /\ []EndedAtMostOnce
  /\ \A r \in Reqs : Arrived(r) ~> ResponseEnded(r)

\* what holds: termination in the authenticated variant
C14_InAuthVariant ==
  /\ []EndedAtMostOnce
  /\ \A r \in Reqs : (variant = "auth" /\ Arrived(r)) ~> (pc[r] = "ended" /\ ResponseEnded(r))

\* the handler of the plain variant has thrown and its response was never ended
C14_NeverEnded ==
  \E r \in Reqs : variant = "plain" /\ pc[r] = "threw" /\ resp[r].ends = 0 /\ crashed

====
